---- MODULE Spec2Model ----
(***************************************************************************)
(* constance.backends.database.DatabaseBackend: a cache-aside front of a   *)
(* table of configuration records.  Independent processes each hold one    *)
(* backend object; they share the table (the Constance model) and the      *)
(* cross-process cache.  Every access to the table or to the cache is one  *)
(* atomic step; the local computation between two accesses belongs to the  *)
(* step of the access before it.  mget is a generator: it stands suspended *)
(* after each pair it hands out, until its consumer resumes it or drops it *)
(* and calls something else.                                               *)
(***************************************************************************)
EXTENDS Integers, Sequences, FiniteSets, TLC

\* ------------------------------------------------------------- bounds
\* Configuration values are the integers 1..MaxValue.
MaxValue == 2
\* Operations started in one behaviour (all processes together).
MaxOps == 3

\* ---------------------------------------------------------- constants
\* Python's None: what cache.get returns on a miss, what get returns for
\* an absent key, and old_value of a created record.  Never a stored value
\* here (stored values are 1..MaxValue).
None == 0
\* The value stored under the autofill marker ({full_cachekey: 1}).
SentinelValue == 1
\* settings.DATABASE_CACHE_AUTOFILL_TIMEOUT when autofill is enabled.
AutofillTimeout == 7

Procs == {"p1", "p2"}
\* The processes are alike: the one that starts the first operation is called p1.
FirstProc == "p1"
Values == 1..MaxValue
\* settings.CONFIG, the registry, in its iteration order.
ConfigSeq == <<"A", "B">>
CONFIG == {ConfigSeq[i] : i \in DOMAIN ConfigSeq}
\* settings.DATABASE_PREFIX
Prefix == "c_"
_autofill_cachekey == "autofilled"

add_prefix(key) == Prefix \o key
\* The raw key of a prefixed key (the dict keys[...] of mget).
RawKey(pk) == CHOOSE k \in CONFIG : add_prefix(k) = pk

FullCachekey == add_prefix(_autofill_cachekey)
PrefixedKeys == {add_prefix(k) : k \in CONFIG}
CacheKeys == PrefixedKeys \cup {FullCachekey}

VARIABLES
    db,         \* the table: a sequence of rows [key, value]; a row's pk is its index
    cache,      \* the shared cache: cache key -> value, None when there is no entry
    hasCache,   \* settings.DATABASE_CACHE_BACKEND is set (self._cache is not None)
    timeout,    \* self._autofill_timeout
    seq,        \* TRUE: one process, operations run alone (pre-state recorded)
    faults,     \* TRUE: an access to the table can find it unavailable
    nops,       \* operations started so far
    snap,       \* seq only: db and cache when the running operation started
    pc,         \* per process: the next access of the running operation
    op,         \* per process: the running (or last finished) operation and its arguments
    loc,        \* per process: the local variables of the running operation
    res,        \* per process: what the operation returned, yielded, sent or raised
    stat,       \* per process: accesses counted in the running operation
    prev,       \* per process: the operation finished before the running one
    intr,       \* per process: another process stepped since its last operation ended
    quiet,      \* per process: none stepped between the end of prev and the end of op
    dirty,      \* per process: another process changed its written key since its durable write
    raced,      \* per process: another process wrote the record its set fetched and has not yet saved
    held        \* per prefixed key: the values its record holds or (~seq) has held

vars == <<db, cache, hasCache, timeout, seq, faults, nops, snap, pc, op, loc, res, stat,
          prev, intr, quiet, dirty, raced, held>>

\* ------------------------------------------------------------ the table
\* The pks of the rows with this (prefixed) key.
Rows(t, key) == {i \in DOMAIN t : t[i].key = key}
HasRecord(t, key) == Rows(t, key) # {}
\* The value of the record of a key, None when there is none.
DbValue(t, key) == IF HasRecord(t, key) THEN t[CHOOSE i \in Rows(t, key) : TRUE].value ELSE None

\* Mutant of DbCreate: the table does not enforce the unique key.
DbCreateNoUnique(t, key, value) == [ok |-> TRUE, t |-> Append(t, [key |-> key, value |-> value])]
\* queryset.create on a table whose key column is unique: the insert, or
\* an IntegrityError when a row with the key exists.
DbCreate(t, key, value) ==
    IF HasRecord(t, key) THEN [ok |-> FALSE, t |-> t]
    ELSE [ok |-> TRUE, t |-> Append(t, [key |-> key, value |-> value])]

\* Mutant of DbSave: the save writes nothing.
DbSaveLost(t, pk, value) == t
\* instance.save() of a fetched row: an UPDATE by primary key.
DbSave(t, pk, value) == [t EXCEPT ![pk].value = value]

\* The orders in which the members of a finite set can be iterated.
Orderings(S) ==
    {o \in [1..Cardinality(S) -> S] : \A i, j \in DOMAIN o : o[i] = o[j] => i = j}

\* filter(key__in=keys): the rows whose key is requested. The query has no
\* ORDER BY, so the engine decides the order of the rows: the result sets
\* it can return are the orderings of the matching rows.
DbFilter(t, keys) ==
    LET matching == {i \in DOMAIN t : t[i].key \in keys} IN
    {[i \in 1..Cardinality(matching) |-> t[o[i]]] : o \in Orderings(matching)}

\* --------------------------------------------------------- dictionaries
\* A dict over cache keys is a function to values, None for a key not in it.
EmptyDict == [k \in CacheKeys |-> None]
DictKeys(d) == {k \in CacheKeys : d[k] # None}

\* cache.get_many(keys): the hits.
GetMany(c, keys) == [k \in CacheKeys |-> IF k \in keys THEN c[k] ELSE None]
\* cache.set_many(d)
SetMany(c, d) == [k \in CacheKeys |-> IF d[k] # None THEN d[k] ELSE c[k]]
\* Mutant of DeleteMany: nothing is deleted.
DeleteNone(c, keys) == c
\* cache.delete_many(keys)
DeleteMany(c, keys) == [k \in CacheKeys |-> IF k \in keys THEN None ELSE c[k]]
\* Mutant of CacheAdd: nothing is stored.
CacheAddDropped(c, key, value) == c
\* Mutant of CacheAdd: a plain set.
CacheAddOverwrites(c, key, value) == [c EXCEPT ![key] = value]
\* cache.add(key, value): stored only when the key has no entry.
CacheAdd(c, key, value) == IF c[key] = None THEN [c EXCEPT ![key] = value] ELSE c

\* The pairs mget yields for a dict of cache hits: one pair per hit, in the
\* iteration order of the dict get_many returned, which the cache backend
\* decides. The sequences of pairs the loop of lines 84-85 can yield.
YieldHits(d) ==
    LET hits == {k \in CONFIG : d[add_prefix(k)] # None} IN
    {[i \in 1..Cardinality(hits) |-> <<o[i], d[add_prefix(o[i])]>>] : o \in Orderings(hits)}

\* The pairs mget yields for the rows of a filter: keys[const.key], const.value.
YieldStored(rows) == [i \in DOMAIN rows |-> <<RawKey(rows[i].key), rows[i].value>>]

\* The autofill batch built from the yielded pairs: the marker plus one
\* entry per pair (a later pair of the same key replaces an earlier one).
RECURSIVE AutofillBatch(_, _)
AutofillBatch(d, pairs) ==
    IF pairs = <<>> THEN d
    ELSE AutofillBatch([d EXCEPT ![add_prefix(Head(pairs)[1])] = Head(pairs)[2]], Tail(pairs))

\* ------------------------------------------------------- process state
NoOp == [name |-> "none", key |-> "", value |-> None, keys |-> {}, fallback |-> FALSE]
NoLoc == [value |-> None, pk |-> 0, row_value |-> None, created |-> FALSE,
          old_value |-> None, autofill_values |-> EmptyDict, values |-> EmptyDict,
          keys |-> {}, todo |-> <<>>, back |-> "done"]
\* ret: what get returned; out: what mget yielded; notes: the config_updated
\* signals sent; fault: the first table access that found the table
\* unavailable; exc: the exception that left the call; path: the way set took
\* (updated, created, refetched); created: the save made a new record;
\* cached: the raw keys whose value a read took from the cache; before: the
\* value the record had when the save of set replaced it; log:
\* the effects of set in the order they took place ("db": its create or save
\* committed, "cache": its cache.set, "note": its signal).
NoRes == [ret |-> None, out |-> <<>>, notes |-> <<>>, fault |-> "none", exc |-> "none",
          path |-> "", created |-> FALSE, log |-> <<>>, cached |-> {}, before |-> None]
\* queries: accesses to the table; cache_reads: reads of the cache, of which
\* marker_reads are autofill's read of its marker (line 61); cache_writes;
\* autofills: calls of autofill().
NoStat == [queries |-> 0, cache_reads |-> 0, marker_reads |-> 0, cache_writes |-> 0,
           autofills |-> 0]
NoPrev == [name |-> "none", key |-> "", value |-> None, ok |-> TRUE, created |-> FALSE]
\* What is remembered of a finished operation when the next one starts: its
\* name and whether every table access of it succeeded; for a write, also
\* the key, the value and whether it created the record.
Summary(o, r) ==
    IF o.name \in {"set", "save"}
    THEN [name |-> o.name, key |-> o.key, value |-> o.value,
          ok |-> r.fault = "none" /\ r.exc = "none", created |-> r.created]
    ELSE [NoPrev EXCEPT !.name = o.name, !.ok = r.fault = "none" /\ r.exc = "none"]

\* What an access to the table can find: the table there (TRUE) or not yet
\* provisioned (FALSE, an OperationalError or ProgrammingError).  Faults are
\* explored where operations run alone (SpecSeq); the interleavings of
\* independent processes are explored over an available table.
Avail == IF faults THEN BOOLEAN ELSE {TRUE}

\* self.autofill() is enabled (line 58).
AutofillEnabled == timeout # 0 /\ hasCache

\* Where a call of autofill() that will return to `back` goes first.
AutofillEntry(back) == IF AutofillEnabled THEN "autofill_check" ELSE back

Bump(p, q, r, w, a) ==
    stat' = [stat EXCEPT ![p].queries = @ + q, ![p].cache_reads = @ + r,
                         ![p].cache_writes = @ + w, ![p].autofills = @ + a]


\* ----------------------------------------------------------- bookkeeping
\* The key whose writes by others process q watches: the key of its set,
\* from the durable write on, and through the get of the same key that follows.
Watch(q) ==
    IF op[q].name = "set" /\ pc[q] \notin {"set_lookup", "set_create", "set_refetch", "set_save"}
    THEN op[q].key
    ELSE IF op[q].name = "get" /\ prev[q].name = "set" /\ prev[q].key = op[q].key
         THEN op[q].key
         ELSE ""

\* The values the records of table t hold, per key.
HeldBy(t) == [k \in PrefixedKeys |-> {t[i].value : i \in Rows(t, k)}]

\* The step of p changed the record or the cache entry of raw key k.
Changed(k) ==
    /\ k # ""
    /\ \/ cache'[add_prefix(k)] # cache[add_prefix(k)]
       \/ DbValue(db', add_prefix(k)) # DbValue(db, add_prefix(k))

\* The step of p drops its suspended generator and starts another call: a
\* suspended generator has handed out a pair, a call that starts has no result.
Abandoned(p) == pc[p] = "mget_yield" /\ res'[p].out = <<>>

\* The step of p starts a call.
Begins(p) == pc[p] = "done" \/ Abandoned(p)

\* What a step of process p records about who stepped and who wrote.
Ghost(p) ==
    /\ intr' = [q \in Procs |->
                   IF q = p THEN (IF pc'[p] = "done" \/ Abandoned(p) THEN FALSE ELSE intr[p])
                   ELSE TRUE]
    /\ quiet' = [q \in Procs |-> IF q # p THEN quiet[q]
                                 ELSE IF pc'[p] = "done" THEN Abandoned(p) \/ ~intr[p]
                                 ELSE FALSE]
    /\ dirty' = [q \in Procs |->
                    IF q = p
                    THEN IF pc[p] \in {"set_create", "set_save"} THEN FALSE
                         ELSE IF Begins(p)
                              THEN op'[p].name = "get" /\ op[p].name = "set"
                                   /\ op'[p].key = op[p].key /\ dirty[p]
                              ELSE dirty[p]
                    ELSE dirty[q] \/ Changed(Watch(q))]
    /\ raced' = [q \in Procs |->
                    IF q = p
                    THEN IF Begins(p) THEN FALSE ELSE raced[p]
                    ELSE \/ raced[q]
                         \/ /\ pc[q] = "set_save"
                            /\ DbValue(db', add_prefix(op[q].key)) # DbValue(db, add_prefix(op[q].key))]
    /\ held' = [k \in PrefixedKeys |-> (IF seq THEN {} ELSE held[k]) \cup HeldBy(db')[k]]

\* A step of a running operation leaves the configuration and the call alone.
Run(p) ==
    /\ UNCHANGED <<hasCache, timeout, seq, faults, nops, snap, op, prev>>
    /\ Ghost(p)

\* ------------------------------------------------------------ the calls
\* A process that runs no operation, or whose consumer holds a suspended
\* generator of mget and drops it, starts an operation: the bookkeeping
\* every call shares.
Begin(p, o, first) ==
    /\ pc[p] \in {"done", "mget_yield"}
    /\ nops < MaxOps
    /\ nops = 0 => p = FirstProc
    /\ nops' = IF seq THEN nops ELSE nops + 1
    /\ op' = [op EXCEPT ![p] = o]
    /\ pc' = [pc EXCEPT ![p] = first]
    /\ res' = [res EXCEPT ![p] = NoRes]
    /\ prev' = [prev EXCEPT ![p] = Summary(op[p], res[p])]
    /\ snap' = IF seq THEN [db |-> db, cache |-> cache] ELSE snap
    /\ UNCHANGED <<db, cache, hasCache, timeout, seq, faults>>
    /\ Ghost(p)

\* get(key): lines 95-103, up to the first cache access.
call_get(p) ==
    \E k \in CONFIG :
        /\ Begin(p, [NoOp EXCEPT !.name = "get", !.key = k],
                 IF hasCache THEN "get_cache" ELSE "get_db")
        /\ loc' = [loc EXCEPT ![p] = NoLoc]
        /\ stat' = [stat EXCEPT ![p] = NoStat]

\* mget(keys, fallback): lines 69-75, up to the first access of the generator.
call_mget(p) ==
    \E ks \in SUBSET CONFIG, fb \in BOOLEAN :
        /\ Begin(p, [NoOp EXCEPT !.name = "mget", !.keys = ks, !.fallback = fb],
                 IF ks = {} THEN "done"
                 ELSE IF hasCache /\ fb THEN "mget_cache" ELSE "mget_db")
        /\ loc' = [loc EXCEPT ![p] = [NoLoc EXCEPT !.keys = ks]]
        /\ stat' = [stat EXCEPT ![p] = NoStat]

\* set(key, value): lines 114-120.
call_set(p) ==
    \E k \in CONFIG, v \in Values :
        /\ Begin(p, [NoOp EXCEPT !.name = "set", !.key = k, !.value = v], "set_lookup")
        /\ loc' = [loc EXCEPT ![p] = NoLoc]
        /\ stat' = [stat EXCEPT ![p] = NoStat]

\* autofill() called on its own (as __init__ does, line 50): line 58.
call_autofill(p) ==
    /\ Begin(p, [NoOp EXCEPT !.name = "autofill"], AutofillEntry("done"))
    /\ loc' = [loc EXCEPT ![p] = NoLoc]
    /\ stat' = [stat EXCEPT ![p] = [NoStat EXCEPT !.autofills = 1]]

\* A save of a record outside set (an administrative edit): the external
\* layer is about to write the record and then send post_save.
call_save(p) ==
    \E k \in CONFIG, v \in Values :
        /\ Begin(p, [NoOp EXCEPT !.name = "save", !.key = k, !.value = v], "save_write")
        /\ loc' = [loc EXCEPT ![p] = NoLoc]
        /\ stat' = [stat EXCEPT ![p] = NoStat]

\* --------------------------------------------------------------- autofill
\* Mutant of Warm: the marker is never taken for set.
WarmNever(c) == FALSE
\* Line 61: the marker read from the cache is truthy.
Warm(c) == c[FullCachekey] # None

\* Line 61: the marker is read; a truthy marker ends the call.
autofill_check(p) ==
    /\ pc[p] = "autofill_check"
    /\ pc' = [pc EXCEPT ![p] = IF Warm(cache) THEN loc[p].back ELSE "autofill_scan"]
    /\ stat' = [stat EXCEPT ![p].cache_reads = @ + 1, ![p].marker_reads = @ + 1]
    /\ UNCHANGED <<db, cache, loc, res>>
    /\ Run(p)

\* Mutant of ScanBatch: the marker is left out of the batch.
ScanBatchNoMarker(pairs) == AutofillBatch(EmptyDict, pairs)
\* Lines 63-65: the batch of a scan that yielded `pairs`.
ScanBatch(pairs) == AutofillBatch([EmptyDict EXCEPT ![FullCachekey] = SentinelValue], pairs)

\* Lines 63-65: mget(settings.CONFIG, fallback=False) is the filter of
\* lines 90-93 over the whole registry; an unavailable table yields nothing.
autofill_scan(p) ==
    /\ pc[p] = "autofill_scan"
    /\ \E up \in Avail :
        /\ \E stored \in DbFilter(db, PrefixedKeys) :
             loc' = [loc EXCEPT ![p].autofill_values =
                       ScanBatch(IF up THEN YieldStored(stored) ELSE <<>>)]
        /\ res' = [res EXCEPT ![p].fault = IF up \/ @ # "none" THEN @ ELSE "scan"]
    /\ pc' = [pc EXCEPT ![p] = "autofill_write"]
    /\ Bump(p, 1, 0, 0, 0)
    /\ UNCHANGED <<db, cache>>
    /\ Run(p)

\* Line 66: one set_many of the batch.
autofill_write(p) ==
    /\ pc[p] = "autofill_write"
    /\ cache' = SetMany(cache, loc[p].autofill_values)
    /\ pc' = [pc EXCEPT ![p] = loc[p].back]
    /\ loc' = [loc EXCEPT ![p].autofill_values = EmptyDict]
    /\ Bump(p, 0, 0, 1, 0)
    /\ UNCHANGED <<db, res>>
    /\ Run(p)

autofill(p) == autofill_check(p) \/ autofill_scan(p) \/ autofill_write(p)

\* -------------------------------------------------------------------- get
\* Lines 98-100: the first cache read; a miss calls autofill().
get_cache(p) ==
    /\ pc[p] = "get_cache"
    /\ LET value == cache[add_prefix(op[p].key)] IN
        IF value = None
        THEN /\ pc' = [pc EXCEPT ![p] = AutofillEntry("get_retry")]
             /\ loc' = [loc EXCEPT ![p].back = "get_retry"]
             /\ Bump(p, 0, 1, 0, 1)
             /\ res' = res
        ELSE /\ pc' = [pc EXCEPT ![p] = "done"]
             /\ res' = [res EXCEPT ![p].ret = value, ![p].cached = {op[p].key}]
             /\ Bump(p, 0, 1, 0, 0)
             /\ loc' = loc
    /\ UNCHANGED <<db, cache>>
    /\ Run(p)

\* Mutant of get_retry: a miss after autofill() calls autofill() and reads again.
get_retry_again(p) ==
    /\ pc[p] = "get_retry"
    /\ LET value == cache[add_prefix(op[p].key)] IN
        /\ pc' = [pc EXCEPT ![p] = IF value = None THEN AutofillEntry("get_retry") ELSE "done"]
        /\ res' = [res EXCEPT ![p].ret = value]
        /\ Bump(p, 0, 1, 0, IF value = None THEN 1 ELSE 0)
    /\ UNCHANGED <<db, cache, loc>>
    /\ Run(p)
\* Line 101: the cache read after autofill().
get_retry(p) ==
    /\ pc[p] = "get_retry"
    /\ LET value == cache[add_prefix(op[p].key)] IN
        /\ pc' = [pc EXCEPT ![p] = IF value = None THEN "get_db" ELSE "done"]
        /\ res' = [res EXCEPT ![p].ret = value,
                              ![p].cached = IF value = None THEN {} ELSE {op[p].key}]
    /\ Bump(p, 0, 1, 0, 0)
    /\ UNCHANGED <<db, cache, loc>>
    /\ Run(p)

\* Lines 104-110: the record is fetched; an unavailable table or a missing
\* record leaves value None. More than one record of the key raises
\* MultipleObjectsReturned, which line 107 does not catch: the call ends
\* with the exception, nothing is returned or cached.
get_db(p) ==
    /\ pc[p] = "get_db"
    /\ \E up \in Avail :
        LET key == add_prefix(op[p].key) IN
        IF up /\ Cardinality(Rows(db, key)) > 1
        THEN /\ pc' = [pc EXCEPT ![p] = "done"]
             /\ res' = [res EXCEPT ![p].exc = "MultipleObjectsReturned"]
             /\ loc' = loc
        ELSE IF up /\ HasRecord(db, key)
        THEN /\ pc' = [pc EXCEPT ![p] = IF hasCache THEN "get_add" ELSE "done"]
             /\ loc' = [loc EXCEPT ![p].value = DbValue(db, key)]
             /\ res' = [res EXCEPT ![p].ret = IF hasCache THEN @ ELSE DbValue(db, key)]
        ELSE /\ pc' = [pc EXCEPT ![p] = "done"]
             /\ res' = [res EXCEPT ![p].fault = IF up THEN @ ELSE "get"]
             /\ loc' = loc
    /\ Bump(p, 1, 0, 0, 0)
    /\ UNCHANGED <<db, cache>>
    /\ Run(p)

\* Lines 111-112: the fetched value is added to the cache and returned.
get_add(p) ==
    /\ pc[p] = "get_add"
    /\ cache' = CacheAdd(cache, add_prefix(op[p].key), loc[p].value)
    /\ pc' = [pc EXCEPT ![p] = "done"]
    /\ res' = [res EXCEPT ![p].ret = loc[p].value]
    /\ loc' = [loc EXCEPT ![p].value = None]
    /\ Bump(p, 0, 0, 1, 0)
    /\ UNCHANGED <<db>>
    /\ Run(p)

get(p) == get_cache(p) \/ get_retry(p) \/ get_db(p) \/ get_add(p)


\* ------------------------------------------------------------------- mget
\* The generator goes on with `pairs` to hand out and `pending` keys left
\* for the filter: it hands out the first pair and stands suspended at its
\* yield (lines 85, 93) with the rest; with no pair left it goes on to the
\* filter for the pending keys, or ends when none is pending (lines 86-88).
\* r is what the call has returned so far.
Yield(p, r, pairs, pending) ==
    /\ res' = [res EXCEPT ![p] = IF pairs = <<>> THEN r
                                 ELSE [r EXCEPT !.out = Append(@, Head(pairs))]]
    /\ loc' = [loc EXCEPT ![p].keys = pending,
                          ![p].todo = IF pairs = <<>> THEN <<>> ELSE Tail(pairs)]
    /\ pc' = [pc EXCEPT ![p] = IF pairs # <<>> THEN "mget_yield"
                               ELSE IF pending = {} THEN "done" ELSE "mget_db"]

\* Lines 84-88: the hits of a get_many are handed out one by one, in the
\* order of the dict get_many returned; the keys that were no hit stay
\* pending (keys and values are locals: what stays pending is settled by
\* the get_many).
MgetYield(p, values) ==
    LET pending == {k \in loc[p].keys : values[add_prefix(k)] = None} IN
    \E hits \in YieldHits(values) :
        Yield(p, [res[p] EXCEPT !.cached = loc[p].keys \ pending], hits, pending)

\* Lines 76-80: the first get_many; fewer hits than keys calls autofill().
mget_cache(p) ==
    /\ pc[p] = "mget_cache"
    /\ LET keys == {add_prefix(k) : k \in loc[p].keys}
           values == GetMany(cache, keys) IN
        IF Cardinality(DictKeys(values)) # Cardinality(keys)
        THEN /\ pc' = [pc EXCEPT ![p] = AutofillEntry("mget_retry")]
             /\ loc' = [loc EXCEPT ![p].back = "mget_retry"]
             /\ res' = res
             /\ Bump(p, 0, 1, 0, 1)
        ELSE /\ MgetYield(p, values)
             /\ Bump(p, 0, 1, 0, 0)
    /\ UNCHANGED <<db, cache>>
    /\ Run(p)

\* Mutant of mget_retry: the hits of the second get_many are not removed
\* from the pending keys.
mget_retry_keeps_pending(p) ==
    /\ pc[p] = "mget_retry"
    /\ LET values == GetMany(cache, {add_prefix(k) : k \in loc[p].keys}) IN
        \E hits \in YieldHits(values) : Yield(p, res[p], hits, loc[p].keys)
    /\ Bump(p, 0, 1, 0, 0)
    /\ UNCHANGED <<db, cache>>
    /\ Run(p)
\* Lines 82-88: the get_many after autofill(), then the yields.
mget_retry(p) ==
    /\ pc[p] = "mget_retry"
    /\ MgetYield(p, GetMany(cache, {add_prefix(k) : k \in loc[p].keys}))
    /\ Bump(p, 0, 1, 0, 0)
    /\ UNCHANGED <<db, cache>>
    /\ Run(p)

\* Mutant of mget_db: the pending keys are dropped instead of looked up.
mget_db_skipped(p) ==
    /\ pc[p] = "mget_db"
    /\ pc' = [pc EXCEPT ![p] = "done"]
    /\ loc' = [loc EXCEPT ![p].keys = {}]
    /\ UNCHANGED <<db, cache, res, stat>>
    /\ Run(p)
\* Lines 90-93: one filter for the pending keys, whose rows (the result of
\* the query, fetched when the loop starts) are handed out one by one; an
\* unavailable table yields nothing more.
mget_db(p) ==
    /\ pc[p] = "mget_db"
    /\ \E up \in Avail :
        \E stored \in DbFilter(db, {add_prefix(k) : k \in loc[p].keys}) :
            Yield(p, [res[p] EXCEPT !.fault = IF up THEN @ ELSE "filter"],
                  IF up THEN YieldStored(stored) ELSE <<>>, {})
    /\ Bump(p, 1, 0, 0, 0)
    /\ UNCHANGED <<db, cache>>
    /\ Run(p)

\* Lines 85 and 93: the consumer resumes the suspended generator, which
\* hands out its next pair or, with none left, goes on (lines 86-88) or ends.
mget_yield(p) ==
    /\ pc[p] = "mget_yield"
    /\ Yield(p, res[p], loc[p].todo, loc[p].keys)
    /\ UNCHANGED <<db, cache, stat>>
    /\ Run(p)

mget(p) == mget_cache(p) \/ mget_retry(p) \/ mget_db(p) \/ mget_yield(p)

\* ------------------------------------------------------------------ clear
\* Mutant of ClearEntry: the created flag is not looked at.
ClearEntryAlways(created, back) == IF hasCache THEN "clear_delete" ELSE back
\* clear(created) as post_save calls it from a save made at `back`'s caller:
\* where the saving operation goes next (line 151).
ClearEntry(created, back) == IF hasCache /\ ~created THEN "clear_delete" ELSE back

\* Lines 152-155: every registry key and the marker are deleted, then autofill().
clear_delete(p) ==
    /\ pc[p] = "clear_delete"
    /\ cache' = DeleteMany(cache, CacheKeys)
    /\ pc' = [pc EXCEPT ![p] = AutofillEntry(loc[p].back)]
    /\ Bump(p, 0, 0, 1, 1)
    /\ UNCHANGED <<db, loc, res>>
    /\ Run(p)

clear(p) == clear_delete(p)

\* -------------------------------------------------------------------- set
\* Mutant of set_lookup: an unavailable table is taken for a missing record.
set_lookup_no_return(p) ==
    /\ pc[p] = "set_lookup"
    /\ \E up \in Avail :
        LET key == add_prefix(op[p].key) IN
        IF ~up
        THEN /\ pc' = [pc EXCEPT ![p] = IF hasCache THEN "set_cache" ELSE "set_send"]
             /\ res' = [res EXCEPT ![p].fault = "lookup"]
             /\ loc' = loc
        ELSE IF ~HasRecord(db, key)
        THEN /\ pc' = [pc EXCEPT ![p] = "set_create"]
             /\ UNCHANGED <<res, loc>>
        ELSE /\ pc' = [pc EXCEPT ![p] = "set_save"]
             /\ loc' = [loc EXCEPT ![p].pk = CHOOSE i \in Rows(db, key) : TRUE,
                                   ![p].row_value = DbValue(db, key)]
             /\ res' = [res EXCEPT ![p].path = "updated"]
    /\ Bump(p, 1, 0, 0, 0)
    /\ UNCHANGED <<db, cache>>
    /\ Run(p)
\* Lines 122-127: queryset.get(key=key); an unavailable table ends the call.
set_lookup(p) ==
    /\ pc[p] = "set_lookup"
    /\ \E up \in Avail :
        LET key == add_prefix(op[p].key) IN
        IF ~up
        THEN /\ pc' = [pc EXCEPT ![p] = "done"]
             /\ res' = [res EXCEPT ![p].fault = "lookup"]
             /\ loc' = loc
        ELSE IF ~HasRecord(db, key)
        THEN /\ pc' = [pc EXCEPT ![p] = "set_create"]
             /\ UNCHANGED <<res, loc>>
        ELSE IF Cardinality(Rows(db, key)) > 1
        THEN /\ pc' = [pc EXCEPT ![p] = "done"]
             /\ res' = [res EXCEPT ![p].exc = "MultipleObjectsReturned"]
             /\ loc' = loc
        ELSE /\ pc' = [pc EXCEPT ![p] = "set_save"]
             /\ loc' = [loc EXCEPT ![p].pk = CHOOSE i \in Rows(db, key) : TRUE,
                                   ![p].row_value = DbValue(db, key)]
             /\ res' = [res EXCEPT ![p].path = "updated"]
    /\ Bump(p, 1, 0, 0, 0)
    /\ UNCHANGED <<db, cache>>
    /\ Run(p)

\* Mutant of OnIntegrityError: the IntegrityError of the create is taken for
\* a create that succeeded.
OnIntegrityErrorIgnored == [pc |-> IF hasCache THEN "set_cache" ELSE "set_send", exc |-> "none"]
\* Mutant of OnIntegrityError: the IntegrityError of the create is not caught.
OnIntegrityErrorRaise == [pc |-> "done", exc |-> "IntegrityError"]
\* Lines 132-134: an IntegrityError of the create leads to the re-fetch.
OnIntegrityError == [pc |-> "set_refetch", exc |-> "none"]

\* Lines 128-134 and 140-141: the atomic create.  post_save then calls
\* clear(created=True), which does nothing.  An IntegrityError goes to the
\* re-fetch; an unavailable table is not caught here.
set_create(p) ==
    /\ pc[p] = "set_create"
    /\ \E up \in Avail :
        LET r == DbCreate(db, add_prefix(op[p].key), op[p].value) IN
        IF ~up
        THEN /\ pc' = [pc EXCEPT ![p] = "done"]
             /\ res' = [res EXCEPT ![p].fault = "create", ![p].exc = "OperationalError"]
             /\ UNCHANGED <<db, loc>>
        ELSE IF r.ok
        THEN /\ db' = r.t
             /\ loc' = [loc EXCEPT ![p].created = TRUE, ![p].old_value = None]
             /\ res' = [res EXCEPT ![p].created = TRUE, ![p].path = "created",
                                   ![p].log = Append(@, "db")]
             /\ pc' = [pc EXCEPT ![p] = ClearEntry(TRUE, IF hasCache THEN "set_cache"
                                                         ELSE "set_send")]
        ELSE /\ pc' = [pc EXCEPT ![p] = OnIntegrityError.pc]
             /\ res' = [res EXCEPT ![p].path = "refetched", ![p].exc = OnIntegrityError.exc]
             /\ UNCHANGED <<db, loc>>
    /\ Bump(p, 1, 0, 0, 0)
    /\ UNCHANGED <<cache>>
    /\ Run(p)

\* Mutant of set_refetch: the record of the other writer is taken for one
\* without a value.
set_refetch_blind(p) ==
    /\ pc[p] = "set_refetch"
    /\ pc' = [pc EXCEPT ![p] = "set_save"]
    /\ loc' = [loc EXCEPT ![p].pk = CHOOSE i \in Rows(db, add_prefix(op[p].key)) : TRUE,
                          ![p].row_value = None]
    /\ res' = res
    /\ Bump(p, 1, 0, 0, 0)
    /\ UNCHANGED <<db, cache>>
    /\ Run(p)
\* Line 134: the record the other writer created is fetched; nothing is caught.
set_refetch(p) ==
    /\ pc[p] = "set_refetch"
    /\ \E up \in Avail :
        LET key == add_prefix(op[p].key) IN
        IF ~up
        THEN /\ pc' = [pc EXCEPT ![p] = "done"]
             /\ res' = [res EXCEPT ![p].fault = "refetch", ![p].exc = "OperationalError"]
             /\ loc' = loc
        ELSE IF Cardinality(Rows(db, key)) # 1
        THEN /\ pc' = [pc EXCEPT ![p] = "done"]
             /\ res' = [res EXCEPT ![p].exc = IF HasRecord(db, key)
                                              THEN "MultipleObjectsReturned"
                                              ELSE "DoesNotExist"]
             /\ loc' = loc
        ELSE /\ pc' = [pc EXCEPT ![p] = "set_save"]
             /\ loc' = [loc EXCEPT ![p].pk = CHOOSE i \in Rows(db, key) : TRUE,
                                   ![p].row_value = DbValue(db, key)]
             /\ res' = res
    /\ Bump(p, 1, 0, 0, 0)
    /\ UNCHANGED <<db, cache>>
    /\ Run(p)

\* Mutant of OldValue: old_value is read after the assignment of the new value.
OldValueAfterAssign(row_value, value) == value
\* Lines 137-138: old_value of an update is the value of the fetched instance.
OldValue(row_value, value) == row_value

\* Mutant of set_save: the new value is assigned to the instance and the
\* save is left out.
set_save_uncommitted(p) ==
    /\ pc[p] = "set_save"
    /\ loc' = [loc EXCEPT ![p].old_value = OldValue(loc[p].row_value, op[p].value),
                          ![p].row_value = None, ![p].pk = 0]
    /\ pc' = [pc EXCEPT ![p] = IF hasCache THEN "set_cache" ELSE "set_send"]
    /\ UNCHANGED <<db, cache, res, stat>>
    /\ Run(p)
\* Lines 136-139: the update.  post_save then calls clear(created=False)
\* in this process, before set goes on to line 143.  An unavailable table
\* is not caught here.
set_save(p) ==
    /\ pc[p] = "set_save"
    /\ \E up \in Avail :
        IF ~up
        THEN /\ pc' = [pc EXCEPT ![p] = "done"]
             /\ res' = [res EXCEPT ![p].fault = "save", ![p].exc = "OperationalError"]
             /\ UNCHANGED <<db, loc>>
        ELSE /\ db' = DbSave(db, loc[p].pk, op[p].value)
             /\ loc' = [loc EXCEPT ![p].old_value = OldValue(loc[p].row_value, op[p].value),
                                   ![p].row_value = None, ![p].pk = 0,
                                   ![p].back = IF hasCache THEN "set_cache" ELSE "set_send"]
             /\ pc' = [pc EXCEPT ![p] = ClearEntry(FALSE, IF hasCache THEN "set_cache"
                                                          ELSE "set_send")]
             /\ res' = [res EXCEPT ![p].log = Append(@, "db"),
                                   ![p].before = db[loc[p].pk].value]
    /\ Bump(p, 1, 0, 0, 0)
    /\ UNCHANGED <<cache>>
    /\ Run(p)

\* Mutant of CacheSet: the write-through is an add-if-absent.
CacheSetIfAbsent(c, key, value) == CacheAdd(c, key, value)
\* cache.set(key, value)
CacheSet(c, key, value) == [c EXCEPT ![key] = value]

\* Lines 143-144: the write-through.
set_cache(p) ==
    /\ pc[p] = "set_cache"
    /\ cache' = CacheSet(cache, add_prefix(op[p].key), op[p].value)
    /\ pc' = [pc EXCEPT ![p] = "set_send"]
    /\ res' = [res EXCEPT ![p].log = Append(@, "cache")]
    /\ Bump(p, 0, 0, 1, 0)
    /\ UNCHANGED <<db, loc>>
    /\ Run(p)

\* Lines 146-148: config_updated is sent with the prefixed key.
set_send(p) ==
    /\ pc[p] = "set_send"
    /\ res' = [res EXCEPT ![p].notes = Append(@, [key |-> add_prefix(op[p].key),
                                                  old_value |-> loc[p].old_value,
                                                  new_value |-> op[p].value]),
                          ![p].log = Append(@, "note")]
    /\ pc' = [pc EXCEPT ![p] = "done"]
    /\ loc' = [loc EXCEPT ![p] = NoLoc]
    /\ UNCHANGED <<db, cache, stat>>
    /\ Run(p)

\* The steps of a set that meets no concurrent creator.
set_alone(p) ==
    set_lookup(p) \/ set_create(p) \/ set_save(p) \/ set_cache(p) \/ set_send(p)

set(p) == set_alone(p) \/ set_refetch(p)

\* ------------------------------------------------- saves outside of set
\* The external layer writes the record (an update of the row when it
\* exists, an insert otherwise) and sends post_save, which calls
\* clear(created) in the saving process (line 52).
save_write(p) ==
    /\ pc[p] = "save_write"
    /\ LET key == add_prefix(op[p].key)
           created == ~HasRecord(db, key) IN
        /\ db' = IF created THEN DbCreate(db, key, op[p].value).t
                 ELSE DbSave(db, CHOOSE i \in Rows(db, key) : TRUE, op[p].value)
        /\ res' = [res EXCEPT ![p].created = created]
        /\ pc' = [pc EXCEPT ![p] = ClearEntry(created, "done")]
    /\ loc' = [loc EXCEPT ![p].back = "done"]
    /\ UNCHANGED <<cache, stat>>
    /\ Run(p)

\* ------------------------------------------------------ the cache's own
\* An entry expires or is evicted while no operation runs.  What the
\* process remembers of its finished operations is about the cache before
\* the eviction, and is forgotten.
Evict ==
    /\ seq
    /\ \A p \in Procs : pc[p] = "done"
    /\ \E k \in CacheKeys :
        /\ cache[k] # None
        /\ cache' = [cache EXCEPT ![k] = None]
    /\ op' = [p \in Procs |-> NoOp]
    /\ res' = [p \in Procs |-> NoRes]
    /\ stat' = [p \in Procs |-> NoStat]
    /\ prev' = [p \in Procs |-> NoPrev]
    /\ snap' = [db |-> <<>>, cache |-> EmptyDict]
    /\ quiet' = [p \in Procs |-> FALSE]
    /\ UNCHANGED <<db, hasCache, timeout, seq, faults, nops, pc, loc, intr, dirty, raced, held>>

\* ------------------------------------------------------- specifications
\* No process has called anything yet.
InitIdle ==
    /\ nops = 0
    /\ snap = [db |-> <<>>, cache |-> EmptyDict]
    /\ pc = [p \in Procs |-> "done"]
    /\ op = [p \in Procs |-> NoOp]
    /\ loc = [p \in Procs |-> NoLoc]
    /\ res = [p \in Procs |-> NoRes]
    /\ stat = [p \in Procs |-> NoStat]
    /\ prev = [p \in Procs |-> NoPrev]
    /\ intr = [p \in Procs |-> FALSE]
    /\ quiet = [p \in Procs |-> FALSE]
    /\ dirty = [p \in Procs |-> FALSE]
    /\ raced = [p \in Procs |-> FALSE]

\* __init__ (lines 25-52): the backends are constructed over a freshly
\* provisioned table and a cold cache; the autofill() of line 50 scans the
\* table and, when autofill is enabled, writes its batch.
InitCommon ==
    /\ db = <<>>
    /\ hasCache \in BOOLEAN
    /\ timeout \in {0, AutofillTimeout}
    /\ cache \in IF AutofillEnabled
                 THEN {SetMany(EmptyDict, ScanBatch(YieldStored(stored))) :
                         stored \in DbFilter(db, PrefixedKeys)}
                 ELSE {EmptyDict}
    /\ held = HeldBy(db)
    /\ InitIdle

Init == InitCommon /\ seq = FALSE /\ faults = FALSE

InitSeq == InitCommon /\ seq = TRUE /\ faults = TRUE

Call(p) == call_get(p) \/ call_mget(p) \/ call_set(p) \/ call_autofill(p) \/ call_save(p)

Step(p) ==
    Call(p) \/ autofill(p) \/ get(p) \/ mget(p) \/ clear(p) \/ set(p) \/ save_write(p)

\* The steps of a process that runs alone: its create never meets a row
\* another process inserted since its lookup, so line 134 is not reached.
StepAlone(p) ==
    Call(p) \/ autofill(p) \/ get(p) \/ mget(p) \/ clear(p) \/ set_alone(p) \/ save_write(p)

\* Independent processes, every interleaving of their accesses.
Next == \E p \in Procs : Step(p)

Spec == Init /\ [][Next]_vars

\* One process, whose operations run alone; cache entries may vanish between them.
NextSeq == StepAlone(FirstProc) \/ Evict

SpecSeq == InitSeq /\ [][NextSeq]_vars

\* The tables a run of saves and sets leaves: at most one row per registry key.
Row == [key : PrefixedKeys, value : Values]
Tables ==
    {t \in UNION {[1..n -> Row] : n \in 0..Cardinality(CONFIG)} :
        \A i, j \in DOMAIN t : t[i].key = t[j].key => i = j}

\* The caches such a run leaves over table t when no entry is stale: the
\* marker set or not (only autofill() sets it), an entry of a key absent or
\* the value of its record.
Caches(t) ==
    {c \in [CacheKeys -> {None} \cup Values] :
        /\ c[FullCachekey] \in {None, SentinelValue}
        /\ c[FullCachekey] # None => AutofillEnabled
        /\ ~hasCache => c = EmptyDict
        /\ \A k \in PrefixedKeys : c[k] \in {None, DbValue(t, k)}}

\* The steady state: records and cache entries are there from earlier saves,
\* sets, reads and expiries; from here on the table is available, nothing is
\* written to it and no cache entry expires.
InitSteady ==
    /\ hasCache \in BOOLEAN
    /\ timeout \in {0, AutofillTimeout}
    /\ db \in Tables
    /\ cache \in Caches(db)
    /\ held = HeldBy(db)
    /\ InitIdle
    /\ seq = TRUE /\ faults = FALSE

\* The steps of a call that has been made.
Running(p) == autofill(p) \/ get(p) \/ mget(p)

\* One process that only reads.
NextSteady == call_get(FirstProc) \/ call_mget(FirstProc) \/ Running(FirstProc)

\* A call that has been made runs to its end; whether and what the caller
\* calls next is the caller's choice.
SpecSteady == InitSteady /\ [][NextSteady]_vars /\ WF_vars(Running(FirstProc))


\* ================================================================ claims
\* Process p has finished a get of the key its previous operation, a set
\* that ran to its end, wrote; the table was available to both.
ReadBack(p) ==
    /\ pc[p] = "done"
    /\ op[p].name = "get"
    /\ prev[p].name = "set"
    /\ prev[p].key = op[p].key
    /\ prev[p].ok
    /\ res[p].fault = "none"

\* C1 as stated: after set(K, V) has completed, a get(K) of the same process
\* that runs with no step of another process between the end of the set and
\* the end of the get returns V.
C1_ReadAfterWrite ==
    \A p \in Procs : ReadBack(p) /\ quiet[p] => res[p].ret = prev[p].value

\* C1 amended: after set(K, V) has completed, the next get(K) of the same
\* process returns V, provided no other process changed the durable record
\* or the cache entry of K between that set's durable write and the end of
\* the get.
C1_ReadAfterUndisturbedWrite ==
    \A p \in Procs : ReadBack(p) /\ ~dirty[p] => res[p].ret = prev[p].value

\* A read-back that returned the written value although other processes
\* stepped between the set and the end of the get.
C1_Witness ==
    \E p \in Procs :
        /\ ReadBack(p) /\ ~dirty[p] /\ ~quiet[p]
        /\ res[p].ret = prev[p].value
        /\ \E q \in Procs \ {p} : op[q].name \in {"set", "save"}

\* Both processes have finished a set of the same key, and the first lookup
\* of each found no record of it.
CreateRace(p, q) ==
    /\ p # q
    /\ pc[p] = "done" /\ pc[q] = "done"
    /\ op[p].name = "set" /\ op[q].name = "set"
    /\ op[p].key = op[q].key
    /\ res[p].path \in {"created", "refetched"}
    /\ res[q].path \in {"created", "refetched"}

\* C2: two concurrent sets of a key without a record both complete without
\* an error, and then exactly one record of the key exists, with the value
\* of one of the two.
C2_CreateRaceConverges ==
    \A p, q \in Procs :
        CreateRace(p, q) =>
            /\ res[p].exc = "none" /\ res[q].exc = "none"
            /\ Len(res[p].notes) = 1 /\ Len(res[q].notes) = 1
            /\ Cardinality(Rows(db, add_prefix(op[p].key))) = 1
            /\ DbValue(db, add_prefix(op[p].key)) \in {op[p].value, op[q].value}

\* The race happened: one set created the record, the create of the other
\* met it and went on as an update with another value.
C2_Witness ==
    \E p, q \in Procs :
        /\ CreateRace(p, q)
        /\ res[p].path = "created" /\ res[q].path = "refetched"
        /\ op[p].value # op[q].value
        /\ DbValue(db, add_prefix(op[p].key)) = op[q].value

\* C3: in every reachable state the table holds at most one record per key.
C3_OneRecordPerKey ==
    \A key \in PrefixedKeys : Cardinality(Rows(db, key)) <= 1

\* A create was refused because a concurrent set had inserted the key, and
\* the key has its one record.
C3_Witness ==
    \E p \in Procs :
        /\ res[p].path = "refetched"
        /\ Cardinality(Rows(db, add_prefix(op[p].key))) = 1
        /\ Len(db) = 2


\* The raw keys of the pairs an mget yielded.
YieldedKeys(out) == {out[i][1] : i \in DOMAIN out}

\* Process p has finished an mget with fallback that ran alone over an
\* available table.
MgetAlone(p) ==
    /\ seq /\ pc[p] = "done"
    /\ op[p].name = "mget" /\ op[p].fallback
    /\ res[p].fault = "none"

\* C4: an mget(keys, fallback=true) that runs alone over an available table
\* yields a pair for exactly the requested keys that had a record or a cache
\* entry when it was called, and ends without an error.
C4_PartialMissComplete ==
    \A p \in Procs :
        MgetAlone(p) =>
            /\ res[p].exc = "none"
            /\ YieldedKeys(res[p].out) =
                   {k \in op[p].keys : \/ HasRecord(snap.db, add_prefix(k))
                                       \/ snap.cache[add_prefix(k)] # None}

\* The partial miss: one requested key was in the cache, another only in
\* the table, a third request would find nothing; both present keys came out.
C4_Witness ==
    \E p \in Procs :
        /\ MgetAlone(p) /\ op[p].keys = CONFIG
        /\ \E a, b \in CONFIG :
            /\ snap.cache[add_prefix(a)] # None
            /\ snap.cache[add_prefix(b)] = None /\ HasRecord(snap.db, add_prefix(b))
        /\ YieldedKeys(res[p].out) = CONFIG

\* Process p has finished a set that ran alone and found the table
\* available at each of its accesses.
SetAlone(p) ==
    /\ seq /\ pc[p] = "done"
    /\ op[p].name = "set"
    /\ res[p].fault = "none" /\ res[p].exc = "none"

\* C5: a set(K, V) that runs alone over an available table sends exactly one
\* notification, with new_value V and with old_value the value the record of
\* K had before the call, None when K had no record.
C5_NotificationPayload ==
    \A p \in Procs :
        SetAlone(p) =>
            /\ Len(res[p].notes) = 1
            /\ res[p].notes[1].key = add_prefix(op[p].key)
            /\ res[p].notes[1].new_value = op[p].value
            /\ res[p].notes[1].old_value = DbValue(snap.db, add_prefix(op[p].key))

\* A set that replaced a value by another one and reported the replaced one.
C5_Witness ==
    \E p \in Procs :
        /\ SetAlone(p)
        /\ HasRecord(snap.db, add_prefix(op[p].key))
        /\ res[p].notes[1].old_value # op[p].value
        /\ res[p].notes[1].old_value = DbValue(snap.db, add_prefix(op[p].key))

\* C6 as stated: no call of get, mget or set ends with a store-unavailable
\* error, whichever of its table accesses finds the table unavailable; a get
\* whose lookup finds it unavailable returns None.
C6_UnavailableNeverSurfaces ==
    \A p \in Procs :
        res[p].fault # "none" =>
            /\ res[p].exc = "none"
            /\ pc[p] = "done" /\ op[p].name = "get" /\ res[p].fault = "get"
               => res[p].ret = None

\* C7: a set whose first lookup finds the table unavailable changes neither
\* the table nor any cache entry, sends no notification and raises nothing.
C7_UnavailableSetIsNoOp ==
    \A p \in Procs :
        seq /\ pc[p] = "done" /\ op[p].name = "set" /\ res[p].fault = "lookup" =>
            /\ db = snap.db
            /\ cache = snap.cache
            /\ res[p].notes = <<>>
            /\ res[p].exc = "none"

\* Such a set, called while the cache held the key and the marker.
C7_Witness ==
    \E p \in Procs :
        /\ seq /\ pc[p] = "done" /\ op[p].name = "set" /\ res[p].fault = "lookup"
        /\ cache[add_prefix(op[p].key)] \notin {None, op[p].value}
        /\ cache[FullCachekey] # None

\* Process p has finished a get that followed, with nothing in between, a
\* save outside of set that edited an existing record; a cache is
\* configured and the table was available throughout.
GetAfterEdit(p) ==
    /\ seq /\ pc[p] = "done" /\ hasCache
    /\ op[p].name = "get"
    /\ prev[p].name = "save" /\ ~prev[p].created /\ prev[p].ok
    /\ res[p].fault = "none"

\* C8: after the invalidation handler has run for an edit of an existing
\* record, the get of any registry key that runs next returns the value the
\* table holds for that key (None when it holds none), with autofill
\* enabled or not.
C8_InvalidationRewarms ==
    \A p \in Procs :
        GetAfterEdit(p) => res[p].ret = DbValue(db, add_prefix(op[p].key))

\* The edited key is read back from the re-warmed cache, without a query.
C8_Witness ==
    \E p \in Procs :
        /\ GetAfterEdit(p)
        /\ op[p].key = prev[p].key
        /\ res[p].ret = prev[p].value
        /\ stat[p].queries = 0

\* C10: with a cache and a non-zero autofill window, an autofill() that
\* follows another autofill() with nothing in between makes no query and no
\* cache write, and leaves the cache as it found it.
C10_AutofillIdempotent ==
    \A p \in Procs :
        /\ seq /\ pc[p] = "done" /\ AutofillEnabled
        /\ op[p].name = "autofill" /\ prev[p].name = "autofill"
        => /\ stat[p].queries = 0
           /\ stat[p].cache_writes = 0
           /\ cache = snap.cache

\* A second autofill() over a marker and a warmed entry.
C10_Witness ==
    \E p \in Procs :
        /\ seq /\ pc[p] = "done" /\ AutofillEnabled
        /\ op[p].name = "autofill" /\ prev[p].name = "autofill"
        /\ cache[FullCachekey] = SentinelValue
        /\ \E k \in PrefixedKeys : cache[k] # None /\ cache[k] = DbValue(db, k)
        /\ stat[p].cache_reads = 1

\* No operation is in progress.
Idle == \A p \in Procs : pc[p] = "done"

\* C9 as stated: whenever no operation is in progress, every cache entry of
\* a key equals the value the table holds for that key.
C9_CacheCoherent ==
    Idle => \A k \in PrefixedKeys : cache[k] # None => cache[k] = DbValue(db, k)

\* C11 as stated: a set(K, V) that runs alone over an available table, and
\* creates or updates the record, leaves the cache entry of every other key
\* and the marker as they were when it was called.
C11_SetTouchesOnlyItsKey ==
    \A p \in Procs :
        SetAlone(p) =>
            \A k \in CacheKeys \ {add_prefix(op[p].key)} : cache[k] = snap.cache[k]

\* Effect e is in the log before position i.
Earlier(log, e, i) == \E j \in 1..(i - 1) : log[j] = e

\* C12: at every point of every set, under any interleaving: its cache.set
\* has taken place only after its create or save committed, and its
\* notification only after that durable write and, when a cache is
\* configured, after its cache.set.
C12_WriteOrdering ==
    \A p \in Procs :
        LET log == res[p].log IN
        \A i \in DOMAIN log :
            /\ log[i] = "cache" => Earlier(log, "db", i)
            /\ log[i] = "note" => /\ Earlier(log, "db", i)
                                  /\ hasCache => Earlier(log, "cache", i)

\* A set that lost the race of the create, updated the record the other
\* set had inserted, wrote the cache and sent its notification, in this order.
C12_Witness ==
    \E p \in Procs :
        /\ pc[p] = "done" /\ op[p].name = "set" /\ res[p].path = "refetched"
        /\ res[p].log = <<"db", "cache", "note">>
        /\ Len(res[p].notes) = 1

\* C13: the step of get that populates the cache after a read of the table
\* (line 111) leaves the cache as it is when the key has an entry at that
\* moment, such as one a concurrent set wrote since the get read the table.
C13_AddIfAbsent ==
    [][\A p \in Procs :
          /\ pc[p] = "get_add" /\ pc'[p] = "done"
          /\ cache[add_prefix(op[p].key)] # None
          => cache' = cache]_vars

\* A get has just finished with the value it read from the table, after its
\* population step found the other value a concurrent set of the key had
\* written to the cache in between; the cache holds the value of the set.
C13_Witness ==
    \E p, q \in Procs :
        /\ p # q
        /\ pc[p] = "done" /\ op[p].name = "get" /\ ~intr[p]
        /\ stat[p].queries = 1 /\ stat[p].cache_writes = 1
        /\ op[q].name = "set" /\ op[q].key = op[p].key
        /\ res[q].log # <<>> /\ res[q].log[Len(res[q].log)] \in {"cache", "note"}
        /\ cache[add_prefix(op[p].key)] = op[q].value
        /\ res[p].ret \notin {None, op[q].value}

\* How far an access is from the end of its call: the accesses of a call in
\* the order of the code, the three accesses of autofill() just above the
\* access the call goes on with.
PcRank(l) ==
    CASE l = "done" -> 0
      [] l \in {"set_send", "get_add"} -> 4
      [] l \in {"set_cache", "get_db", "mget_db"} -> 8
      [] l \in {"get_retry", "mget_retry", "clear_delete"} -> 12
      [] l \in {"get_cache", "mget_cache", "set_save", "save_write"} -> 16
      [] l = "set_refetch" -> 20
      [] l = "set_create" -> 24
      [] l = "set_lookup" -> 28
\* A suspended generator is as far from its end as it has pairs to hand
\* out, before the filter when keys are pending.
Rank(l, lc) ==
    CASE l = "autofill_check" -> PcRank(lc.back) + 3
      [] l = "autofill_scan" -> PcRank(lc.back) + 2
      [] l = "autofill_write" -> PcRank(lc.back) + 1
      [] l = "mget_yield" -> (IF lc.keys = {} THEN 1 ELSE 9) + Len(lc.todo)
      [] OTHER -> PcRank(l)

\* The accesses a call has made so far are within the bounds of one pass:
\* autofill() at most once and its marker read at most once per call of it,
\* the call's own cache reads at most two, no cache read and no autofill()
\* in an mget without fallback, and in autofill() itself nothing but the
\* marker read, one scan of the table and one write.
RetryBounds(p) ==
    /\ stat[p].autofills <= 1
    /\ stat[p].marker_reads <= stat[p].autofills
    /\ stat[p].cache_reads - stat[p].marker_reads <= 2
    /\ op[p].name \in {"get", "mget"} => stat[p].cache_reads <= 3
    /\ stat[p].queries <= 5
    /\ op[p].name \in {"get", "mget"} => stat[p].queries <= 2
    /\ op[p].name = "mget" /\ ~op[p].fallback => stat[p].cache_reads = 0 /\ stat[p].autofills = 0
    /\ op[p].name \in {"autofill", "set", "save"} => stat[p].cache_reads = stat[p].marker_reads
    /\ op[p].name = "autofill" => stat[p].queries <= 1 /\ stat[p].cache_writes <= 1

\* Each step of a running call (for mget, each resumption of the generator
\* too) brings the call nearer to its end.
RankFalls ==
    \A p \in Procs :
        /\ pc[p] # "done" /\ ~Abandoned(p)
        /\ <<pc[p], stat[p], loc[p].todo>> # <<pc'[p], stat'[p], loc'[p].todo>>
        => Rank(pc'[p], loc'[p]) < Rank(pc[p], loc[p])

\* A get or an mget has read the cache at most twice, the reads of the
\* autofill() it called included.
TwoCacheReads(p) == op[p].name \in {"get", "mget"} => stat[p].cache_reads <= 2

\* C14 as stated: every call of get, mget, set, autofill and of the
\* invalidation handler terminates; a get or an mget invokes autofill() at
\* most once and reads the cache at most twice in all; the scan of
\* autofill() reads no cache and invokes no autofill().
C14_AtMostTwoCacheReads ==
    /\ [](\A p \in Procs : RetryBounds(p) /\ TwoCacheReads(p)
                            /\ (pc[p] # "done" => ENABLED Step(p)))
    /\ [][RankFalls]_vars

\* C14 amended: every call of get, mget, set, autofill and of the
\* invalidation handler terminates: each of its steps brings it nearer to
\* its end and a call that has not ended can take its next step; a get or
\* an mget invokes autofill() at most once, reads the cache for its own keys
\* at most twice and, through the marker read of the autofill() it invoked,
\* at most three times in all; the scan of autofill() reads no cache and
\* invokes no autofill().
C14_BoundedRetry ==
    /\ [](\A p \in Procs : RetryBounds(p) /\ (pc[p] # "done" => ENABLED Step(p)))
    /\ [][RankFalls]_vars

\* A get that went the whole way and read the cache three times: a miss,
\* autofill() with its marker read, a second miss, the record read from the
\* table, the population.
C14_Witness ==
    \E p \in Procs :
        /\ pc[p] = "done" /\ op[p].name = "get" /\ res[p].ret # None
        /\ stat[p].autofills = 1 /\ stat[p].marker_reads = 1
        /\ stat[p].cache_reads = 3 /\ stat[p].queries >= 1 /\ stat[p].cache_writes >= 1

\* C15 as stated: whenever autofill() is about to write a batch that holds
\* the marker (line 66), the batch holds, for every registry key with a
\* record at the time of the scan, an entry with the value of the record;
\* also when the scan found the table unavailable.
C15_SentinelMeansWarmed ==
    \A p \in Procs :
        seq /\ pc[p] = "autofill_write" /\ loc[p].autofill_values[FullCachekey] # None
        => \A k \in PrefixedKeys :
               HasRecord(db, k) => loc[p].autofill_values[k] = DbValue(db, k)

\* Process p reads raw key K: a get(K), or an mget with fallback whose keys
\* include K.
GetOf(p, K) == op[p].name = "get" /\ op[p].key = K
ReadOf(p, K) == GetOf(p, K) \/ (op[p].name = "mget" /\ op[p].fallback /\ K \in op[p].keys)
\* A get of K has ended.
GetDone(K) == \E p \in Procs : GetOf(p, K) /\ pc[p] = "done"
\* The step ends a read of K by p: the call runs to its end, or the
\* generator of an mget that has handed out K is dropped.
ReadEndsIn(p, K) ==
    /\ ReadOf(p, K)
    /\ \/ pc[p] # "done" /\ pc'[p] = "done" /\ ~Abandoned(p)
       \/ Abandoned(p) /\ K \in YieldedKeys(res[p].out)
\* The step ends a read of K; no read of K ends in it without having taken
\* the value of K from the cache.
ReadEnds(K) == \E p \in Procs : ReadEndsIn(p, K)
HitEnds(K) ==
    \A p \in Procs :
        ReadEndsIn(p, K) => K \in (IF Abandoned(p) THEN res[p].cached ELSE res'[p].cached)
\* K has a record, a cache is configured and autofill is enabled.
Steady(K) == HasRecord(db, add_prefix(K)) /\ AutofillEnabled

\* C16 as stated: in the steady state, for every key K with a record, if
\* reads of K (get(K), or an mget with fallback that includes K) end again
\* and again, then from some point on every read of K that ends has taken
\* the value of K from the cache.
C16_ReadsEventuallyHit ==
    \A K \in CONFIG :
        Steady(K) /\ []<><<ReadEnds(K)>>_vars => <>[][HitEnds(K)]_vars

\* C16 amended: the same for the sequences of reads of K that include a
\* get(K).
C16_ReadsHitAfterGet ==
    \A K \in CONFIG :
        Steady(K) /\ []<><<ReadEnds(K)>>_vars /\ <>GetDone(K)
            => <>[][HitEnds(K)]_vars

\* An mget of a key took its value from the cache, without a query, right
\* after a get; the marker was set throughout.
C16_Witness ==
    \E K \in CONFIG, p \in Procs :
        /\ Steady(K) /\ snap.cache[FullCachekey] # None
        /\ pc[p] = "done" /\ op[p].name = "mget" /\ op[p].fallback /\ op[p].keys = {K}
        /\ prev[p].name = "get"
        /\ K \in res[p].cached /\ stat[p].queries = 0

\* Process p has finished, alone, a save outside of set for which the
\* handler was called with created = True or without a cache configured.
ClearSkipped(p) ==
    /\ seq /\ pc[p] = "done"
    /\ op[p].name = "save"
    /\ res[p].created \/ ~hasCache

\* C17: when clear() is called for a save that created the record, or when
\* no cache is configured, it leaves every cache entry and the marker as they
\* were, makes no query and no cache access and does not call autofill();
\* the same holds of the clear() that the create of a set triggers, after
\* which only the entry of the set's key is written.
C17_ClearOnCreateIsNoOp ==
    \A p \in Procs :
        /\ ClearSkipped(p) => cache = snap.cache /\ stat[p] = NoStat
        /\ SetAlone(p) /\ res[p].created
           => /\ stat[p].autofills = 0 /\ stat[p].cache_reads = 0
              /\ \A k \in CacheKeys \ {add_prefix(op[p].key)} : cache[k] = snap.cache[k]

\* A record was created outside of set while the cache held the marker and
\* an entry of the other key; the new key has no entry afterwards.
C17_Witness ==
    \E p \in Procs :
        /\ ClearSkipped(p) /\ res[p].created /\ hasCache
        /\ cache[FullCachekey] # None
        /\ \E k \in PrefixedKeys : cache[k] # None
        /\ HasRecord(db, add_prefix(op[p].key)) /\ cache[add_prefix(op[p].key)] = None

\* Process p has finished a set that sent its notification.
Notified(p) == pc[p] = "done" /\ op[p].name = "set" /\ Len(res[p].notes) = 1

\* The calls the processes have made of late are all calls of set.
OnlySets ==
    \A q \in Procs : op[q].name \in {"set", "none"} /\ prev[q].name \in {"set", "none"}

\* C18 as stated: under concurrent sets (and no other writes), the
\* old_value of the notification of each set is the value the record of the
\* key had just before the durable write of that set (None when the set
\* created the record).
C18_OldValueIsPreviousWrite ==
    \A p \in Procs :
        OnlySets /\ Notified(p) => res[p].notes[1].old_value = res[p].before

\* C18 amended: the old_value of the notification of a set is the value
\* the record had just before the durable write of that set when no other
\* process wrote the record between the fetch of the set (its lookup, or its
\* re-fetch after a lost create) and its save.
C18_OldValueUnlessRaced ==
    \A p \in Procs :
        Notified(p) /\ ~raced[p] => res[p].notes[1].old_value = res[p].before

\* A set that lost the create to a concurrent set of another value and
\* reported that value as old_value.
C18_Witness ==
    \E p, q \in Procs :
        /\ p # q /\ Notified(p) /\ ~raced[p] /\ res[p].path = "refetched"
        /\ op[q].name = "set" /\ op[q].key = op[p].key /\ res[q].path = "created"
        /\ res[p].notes[1].old_value = op[q].value
        /\ op[q].value # op[p].value

\* C19: an mget that runs alone yields only requested keys, each at most
\* once, however far its generator is consumed; the value of a key that was
\* a hit of the last get_many is its cache entry, the value of any other
\* yielded key is the value of its record; consumed to its end, it has
\* yielded every hit of the last get_many.
C19_YieldOnce ==
    \A p \in Procs :
        seq /\ op[p].name = "mget" =>
            LET out == res[p].out IN
            /\ YieldedKeys(out) \subseteq op[p].keys
            /\ \A i, j \in DOMAIN out : out[i][1] = out[j][1] => i = j
            /\ pc[p] = "done" => res[p].cached \subseteq YieldedKeys(out)
            /\ \A i \in DOMAIN out :
                   out[i][2] = IF out[i][1] \in res[p].cached
                               THEN cache[add_prefix(out[i][1])]
                               ELSE DbValue(db, add_prefix(out[i][1]))

\* An mget of the whole registry that missed, called autofill(), and then
\* yielded one key from the cache and the other from the table.
C19_Witness ==
    \E p \in Procs :
        /\ seq /\ pc[p] = "done" /\ op[p].name = "mget" /\ op[p].keys = CONFIG
        /\ stat[p].autofills = 1 /\ stat[p].cache_reads >= 2
        /\ Len(res[p].out) = 2
        /\ Cardinality(res[p].cached) = 1

\* C20: in every reachable state, under any interleaving, every cache entry
\* of a registry key belongs to a key that has a record, and its value is one
\* the record holds or has held.
C20_CacheProvenance ==
    \A k \in PrefixedKeys :
        cache[k] # None => HasRecord(db, k) /\ cache[k] \in held[k]

\* With no operation in progress, the cache holds for a key a value that
\* its record held earlier and holds no more.
C20_Witness ==
    /\ Idle
    /\ \E k \in PrefixedKeys :
        /\ cache[k] # None /\ cache[k] # DbValue(db, k)
        /\ cache[k] \in held[k]

====
